---- MODULE Spec2Model ----
(***************************************************************************)
(* Model of proyectofinal1.py: a Streamlit script that is re-executed from *)
(* top to bottom on every interaction of a session.  One execution ("a     *)
(* pass") appends at most one holding to the session's portfolio and then  *)
(* runs four loops over it (valuation, simulation, benchmark return,       *)
(* diversification); each loop iteration calls obtener_precio_cache, a     *)
(* function memoized by st.cache_data(ttl=300).                            *)
(*                                                                         *)
(* Numbers.  Python floats are modelled by exact fixed-point arithmetic:   *)
(* money is an integer number of 1/1000 USD (so 1 cent = 10 units), and    *)
(* every price is a multiple of 100 units (0.10 USD), which makes          *)
(* price * (1 + pct/100) exact.  Unrounded percentages are fractions       *)
(* <<num, den>>; a denominator of 0 is the non-finite result of a float    *)
(* division by zero.  Rounded percentages are integers in 1/100 percent.   *)
(* round(x, 2) is round-half-to-even on the exact value.                   *)
(***************************************************************************)
EXTENDS Integers, Sequences, FiniteSets

VARIABLES
    portafolio,               \* st.session_state.portafolio
    cache,                    \* the store of st.cache_data for obtener_precio_cache
    reloj,                    \* the clock st.cache_data reads, in seconds
    ticks,                    \* how many times the clock advanced (bounds the model)
    pc,                       \* section of the script the pass is in
    i,                        \* index of the holding the section's loop is at
    sliders,                  \* pesimista_pct, neutral_pct, optimista_pct
    llamadas,                 \* per loop, what each obtener_precio_cache call returned
    avisos,                   \* the st.warning calls of the pass, in order
    datos,                    \* valuation rows
    resultados,               \* scenario rows
    total_actual_portafolio,
    resumen,                  \* per-scenario aggregate
    rendimiento_portafolio,
    rend_total,
    total_valor,
    valores,                  \* dict ticker -> valor, as a sequence of <<key, value>>
    pesos                     \* porcentaje computed for each entry of valores

vars == <<portafolio, cache, reloj, ticks, pc, i, sliders, llamadas, avisos, datos,
          resultados, total_actual_portafolio, resumen, rendimiento_portafolio,
          rend_total, total_valor, valores, pesos>>

----------------------------------------------------------------------------
\* Bounds of the model and the sets inputs are drawn from.

MaxHoldings == 2
MaxTicks == 2

\* Seconds the clock may advance by in one step.
TickSteps == {150}

\* Ticker symbols after .upper(), and what the user may type in the text input.
Tickers == {"AAPL", "MSFT"}
TickerInputs == {"", "aapl", "AAPL", "MSFT"}

\* What the two number inputs may hold on a submission, as <<cantidad,
\* precio_compra>>: number_input(min_value=1, step=1) and
\* number_input(min_value=0.0); 10 shares bought at 100.00 USD, 1 share at 0.00.
Compras == {<<10, 100000>>, <<1, 0>>}

\* Closing prices the market-data source may report: 0.00, 0.10 and 150.00 USD
Cierres == {0, 100, 150000}

\* slider(min_value=-90, max_value=0, value=-20), slider(-50, 50, 0), slider(0, 200, 30)
PesimistaPcts == {-20}
NeutralPcts == {5}
OptimistaPcts == {30}

----------------------------------------------------------------------------
\* Values.

\* Python's None and a float, as returned by obtener_precio_cache.
None == [ok |-> FALSE, v |-> 0]
Some(p) == [ok |-> TRUE, v |-> p]

\* `x is None`
IsNone(x) == ~x.ok

\* `if x:` for x None or a float
Truthy(x) == x.ok /\ x.v # 0

\* What yf.Ticker(t).history(period="1d") may do: raise, return an empty frame,
\* or return a frame whose last Close is `close`.
Respuestas == {[kind |-> "exception", close |-> 0], [kind |-> "empty", close |-> 0]}
              \cup {[kind |-> "close", close |-> c] : c \in Cierres}

\* The source is not consulted.
SinConsulta == [kind |-> "none", close |-> 0]

\* ttl of st.cache_data, in seconds
TTL == 300

\* concentration threshold, in percent
Umbral == 50

SinEntrada == [has |-> FALSE, val |-> None, at |-> 0]

RECURSIVE GCD(_, _)
GCD(a, b) == IF b = 0 THEN a ELSE GCD(b, a % b)

Abs(n) == IF n < 0 THEN -n ELSE n

\* The float n / d as an exact fraction in lowest terms with a non-negative
\* denominator; d = 0 gives the non-finite <<1, 0>> (inf).
Frac(n, d) ==
    IF d = 0 THEN <<1, 0>>
    ELSE LET g == GCD(Abs(n), Abs(d))
             s == IF d < 0 THEN -1 ELSE 1
         IN  IF n = 0 THEN <<0, 1>> ELSE <<s * (n \div g), s * (d \div g)>>

FracAdd(f, g) ==
    IF f[2] = 0 \/ g[2] = 0 THEN <<1, 0>>
    ELSE Frac(f[1] * g[2] + g[1] * f[2], f[2] * g[2])

\* n / d rounded to the nearest integer, ties to the even one (d > 0).
RoundHalfEven(n, d) ==
    LET q == n \div d
        r == n % d
    IN  IF 2 * r < d THEN q
        ELSE IF 2 * r > d THEN q + 1
        ELSE IF q % 2 = 0 THEN q ELSE q + 1

\* round(x, 2) of an amount of money: to a whole number of cents (10 units).
Round2(x) == RoundHalfEven(x, 10) * 10

\* round(f, 2) of a finite percentage f, in 1/100 percent.
RoundPct(f) == RoundHalfEven(f[1] * 100, f[2])

\* str.upper() on the strings the text input may hold.
Upper(s) == IF s = "aapl" THEN "AAPL" ELSE s

----------------------------------------------------------------------------
\* obtener_precio_cache

\* The body of obtener_precio_cache: the lookup's outcome turned into a return value.
obtener_precio(resp) ==
    IF resp.kind = "exception" THEN None
    ELSE IF resp.kind = "empty" THEN None
    ELSE Some(resp.close)

\* Mutation of Fresco: an entry aged exactly ttl is still served.
Fresco_Inclusive(e, now) == e.has /\ now <= e.at + TTL

\* st.cache_data(ttl=300): an entry is served while it is younger than ttl.
Fresco(e, now) == e.has /\ now < e.at + TTL

\* What st.cache_data keeps of a computed return value: every value, None included.
Guardar(ret, now) == [has |-> TRUE, val |-> ret, at |-> now]

\* One call obtener_precio_cache(ticker) at time now: the value returned, the
\* number of external lookups made, and the store afterwards.
obtener_precio_cache(ticker, resp, now, c) ==
    IF Fresco(c[ticker], now)
    THEN [ret |-> c[ticker].val, lookups |-> 0, cache |-> c]
    ELSE LET ret == obtener_precio(resp)
         IN  [ret |-> ret, lookups |-> 1,
              cache |-> [c EXCEPT ![ticker] = Guardar(ret, now)]]

----------------------------------------------------------------------------
\* The script's own computations.

\* Mutation of Agregar: the holding is inserted at the front.
Agregar_AlFrente(p, inv) == <<inv>> \o p

\* st.session_state.portafolio.append({...})
Agregar(p, inv) == Append(p, inv)

\* What the form's submit handler leaves in the portfolio.
TrasFormulario(p, agregar, texto, cantidad, precio_compra) ==
    LET ticker == Upper(texto)
    IN  IF agregar /\ ticker # "" /\ cantidad > 0
        THEN Agregar(p, [ticker |-> ticker, cantidad |-> cantidad,
                         precio_compra |-> precio_compra])
        ELSE p

\* The row the valuation loop appends for a holding with a price.
FilaValor(inv, precio_actual) ==
    [Ticker |-> inv.ticker, Cantidad |-> inv.cantidad,
     PrecioCompra |-> inv.precio_compra,
     PrecioActual |-> Round2(precio_actual),
     ValorActual |-> Round2(inv.cantidad * precio_actual)]

\* Mutation of AvisoSim: the simulation loop skips the holding silently.
AvisoSim_Ninguno(ticker) == <<>>

\* The warning of the valuation loop and the one of the simulation loop.
AvisoValor(ticker) == <<[sec |-> "val", ticker |-> ticker]>>
AvisoSim(ticker) == <<[sec |-> "sim", ticker |-> ticker]>>

\* Mutation of precio_simulado: the percentage is subtracted.
precio_simulado_Resta(precio_actual, pct) == (precio_actual * (100 - pct)) \div 100

\* precio_actual * (1 + pct / 100)
precio_simulado(precio_actual, pct) == (precio_actual * (100 + pct)) \div 100

\* The dict escenarios of one holding: name -> simulated price, in insertion order.
\* A name f"Pesimista ({pct}%)" is the pair <<"Pesimista", pct>>.
escenarios(precio_actual, s) ==
    << <<(<<"Pesimista", s.pesimista>>), precio_simulado(precio_actual, s.pesimista)>>,
       <<(<<"Neutral", s.neutral>>), precio_simulado(precio_actual, s.neutral)>>,
       <<(<<"Optimista", s.optimista>>), precio_simulado(precio_actual, s.optimista)>> >>

\* (diferencia / base) * 100 if base != 0 else 0
rendimiento_guardado(diferencia, base) ==
    IF base # 0 THEN Frac(diferencia * 100, base) ELSE <<0, 1>>

\* The row the simulation loop appends for one holding and one scenario.
FilaEscenario(inv, precio_actual, esc) ==
    LET valor_actual == inv.cantidad * precio_actual
        valor_futuro == inv.cantidad * esc[2]
        diferencia == valor_futuro - valor_actual
        rendimiento == rendimiento_guardado(diferencia, valor_actual)
    IN  [Ticker |-> inv.ticker, Escenario |-> esc[1],
         ValorActual |-> Round2(valor_actual),
         ValorFuturo |-> Round2(valor_futuro),
         Diferencia |-> Round2(diferencia),
         Rendimiento |-> RoundPct(rendimiento)]

FilasEscenario(inv, precio_actual, s) ==
    LET e == escenarios(precio_actual, s)
    IN  [k \in 1..Len(e) |-> FilaEscenario(inv, precio_actual, e[k])]

\* Mutation of total_escenario: the rows are not filtered by scenario.
RECURSIVE total_escenario_SinFiltro(_, _)
total_escenario_SinFiltro(rows, escenario) ==
    IF rows = <<>> THEN 0
    ELSE Head(rows).ValorFuturo + total_escenario_SinFiltro(Tail(rows), escenario)

\* sum(r["Valor futuro ($)"] for r in resultados if r["Escenario"] == escenario)
RECURSIVE total_escenario(_, _)
total_escenario(rows, escenario) ==
    IF rows = <<>> THEN 0
    ELSE (IF Head(rows).Escenario = escenario THEN Head(rows).ValorFuturo ELSE 0)
         + total_escenario(Tail(rows), escenario)

\* The entry of resumen for one scenario name.
EntradaResumen(rows, escenario, total_actual) ==
    LET total == total_escenario(rows, escenario)
        diferencia == total - total_actual
        rendimiento == rendimiento_guardado(diferencia, total_actual)
    IN  [ValorFuturoTotal |-> Round2(total),
         DiferenciaTotal |-> Round2(diferencia),
         RendimientoTotal |-> RoundPct(rendimiento)]

\* sorted(set(r["Escenario"] for r in resultados))
escenarios_unicos(rows) == {rows[k].Escenario : k \in 1..Len(rows)}

\* (precio_actual - precio_compra) / precio_compra * 100, with no guard: a zero
\* precio_compra gives the non-finite <<1, 0>>.
rendimiento_compra(precio_actual, precio_compra) ==
    Frac((precio_actual - precio_compra) * 100, precio_compra)

RECURSIVE SumaFrac(_)
SumaFrac(fs) == IF fs = <<>> THEN <<0, 1>> ELSE FracAdd(Head(fs), SumaFrac(Tail(fs)))

\* sum(rendimiento_portafolio) / len(rendimiento_portafolio) if rendimiento_portafolio else 0
media_rendimiento(fs) ==
    IF fs = <<>> THEN <<0, 1>>
    ELSE LET s == SumaFrac(fs)
         IN  IF s[2] = 0 THEN <<1, 0>> ELSE Frac(s[1], s[2] * Len(fs))

\* d[key] = value on a dict kept as a sequence of <<key, value>> in insertion order.
DictSet(d, key, value) ==
    IF \E k \in 1..Len(d) : d[k][1] = key
    THEN [k \in 1..Len(d) |-> IF d[k][1] = key THEN <<key, value>> ELSE d[k]]
    ELSE Append(d, <<key, value>>)

DictKeys(d) == {d[k][1] : k \in 1..Len(d)}

\* (valor / total_valor) * 100
porcentaje(valor, total) == Frac(valor * 100, total)

\* Mutation of SuperaUmbral: a weight of exactly 50 warns too.
SuperaUmbral_Inclusive(pct) == pct[1] >= Umbral * pct[2]

\* porcentaje > 50
SuperaUmbral(pct) == pct[1] > Umbral * pct[2]

\* The weight loop: the percentage of each entry of valores.
PesosDe(d, total) == [k \in 1..Len(d) |-> <<d[k][1], porcentaje(d[k][2], total)>>]

\* The warnings of the weight loop, in the order of the entries.
RECURSIVE AvisosDiv(_)
AvisosDiv(ps) ==
    IF ps = <<>> THEN <<>>
    ELSE (IF SuperaUmbral(Head(ps)[2])
          THEN <<[sec |-> "div", ticker |-> Head(ps)[1]]>> ELSE <<>>)
         \o AvisosDiv(Tail(ps))

----------------------------------------------------------------------------
\* State machine.

SinLlamadas == [val |-> <<>>, sim |-> <<>>, bench |-> <<>>, div |-> <<>>]

Init ==
    /\ portafolio = <<>>
    /\ cache = [t \in Tickers |-> SinEntrada]
    /\ reloj = 0
    /\ ticks = 0
    /\ pc = "idle"
    /\ i = 1
    /\ sliders = [pesimista |-> -20, neutral |-> 0, optimista |-> 30]
    /\ llamadas = SinLlamadas
    /\ avisos = <<>>
    /\ datos = <<>>
    /\ resultados = <<>>
    /\ total_actual_portafolio = 0
    /\ resumen = <<>>
    /\ rendimiento_portafolio = <<>>
    /\ rend_total = <<0, 1>>
    /\ total_valor = 0
    /\ valores = <<>>
    /\ pesos = <<>>

\* Time passes: between two passes and, within a pass, between two sections of
\* the script (a section's loop is taken to run within one reading of the clock).
Tick(d) ==
    /\ ticks < MaxTicks
    /\ pc \in {"idle", "error"} \/ i = 1
    /\ reloj' = reloj + d
    /\ ticks' = ticks + 1
    /\ UNCHANGED <<portafolio, cache, pc, i, sliders, llamadas, avisos, datos,
                   resultados, total_actual_portafolio, resumen,
                   rendimiento_portafolio, rend_total, total_valor, valores, pesos>>

\* An interaction re-executes the script: everything the previous pass computed
\* is dropped and the form's handler runs (lines 25-44).
Inicio(agregar, texto, cantidad, precio_compra) ==
    /\ pc \in {"idle", "error"}
    /\ LET p == TrasFormulario(portafolio, agregar, texto, cantidad, precio_compra)
       IN  /\ Len(p) <= MaxHoldings
           /\ portafolio' = p
    /\ pc' = "val"
    /\ i' = 1
    /\ llamadas' = SinLlamadas
    /\ avisos' = <<>>
    /\ datos' = <<>>
    /\ resultados' = <<>>
    /\ total_actual_portafolio' = 0
    /\ resumen' = <<>>
    /\ rendimiento_portafolio' = <<>>
    /\ rend_total' = <<0, 1>>
    /\ total_valor' = 0
    /\ valores' = <<>>
    /\ pesos' = <<>>
    /\ UNCHANGED <<cache, reloj, ticks, sliders>>

\* The call every loop iteration makes, recorded.
Llamar(ticker, resp) ==
    LET r == obtener_precio_cache(ticker, resp, reloj, cache)
    IN  /\ cache' = r.cache
        /\ llamadas' = [llamadas EXCEPT
                           ![pc] = Append(@, [ret |-> r.ret, lookups |-> r.lookups])]

Devuelto(ticker, resp) == obtener_precio_cache(ticker, resp, reloj, cache).ret

\* What the market-data source may answer during a call for ticker: it is
\* consulted only when the store holds no fresh entry.
Consultas(ticker) ==
    IF Fresco(cache[ticker], reloj) THEN {SinConsulta} ELSE Respuestas

\* One iteration of the valuation loop (lines 54-68).
ValorarActivo(resp) ==
    /\ pc = "val"
    /\ i <= Len(portafolio)
    /\ resp \in Consultas(portafolio[i].ticker)
    /\ LET inv == portafolio[i]
           precio_actual == Devuelto(inv.ticker, resp)
       IN  /\ Llamar(inv.ticker, resp)
           /\ IF IsNone(precio_actual)
              THEN /\ avisos' = avisos \o AvisoValor(inv.ticker)
                   /\ datos' = datos
              ELSE /\ datos' = Append(datos, FilaValor(inv, precio_actual.v))
                   /\ avisos' = avisos
    /\ i' = i + 1
    /\ UNCHANGED <<portafolio, reloj, ticks, pc, sliders, resultados,
                   total_actual_portafolio, resumen, rendimiento_portafolio,
                   rend_total, total_valor, valores, pesos>>

\* The end of the valuation section and the head of the simulation section
\* (lines 69-93): the sliders are read when the portfolio is not empty.
ValorarFin(pes, neu, opt) ==
    /\ pc = "val"
    /\ i > Len(portafolio)
    /\ avisos' = IF portafolio # <<>> /\ datos = <<>>
                 THEN Append(avisos, [sec |-> "val", ticker |-> ""])
                 ELSE avisos
    /\ sliders' = IF portafolio # <<>>
                  THEN [pesimista |-> pes, neutral |-> neu, optimista |-> opt]
                  ELSE sliders
    /\ pc' = "sim"
    /\ i' = 1
    /\ UNCHANGED <<portafolio, cache, reloj, ticks, llamadas, datos, resultados,
                   total_actual_portafolio, resumen, rendimiento_portafolio,
                   rend_total, total_valor, valores, pesos>>

\* One iteration of the simulation loop (lines 95-125).
SimularActivo(resp) ==
    /\ pc = "sim"
    /\ i <= Len(portafolio)
    /\ resp \in Consultas(portafolio[i].ticker)
    /\ LET inv == portafolio[i]
           precio_actual == Devuelto(inv.ticker, resp)
       IN  /\ Llamar(inv.ticker, resp)
           /\ IF IsNone(precio_actual)
              THEN /\ avisos' = avisos \o AvisoSim(inv.ticker)
                   /\ UNCHANGED <<resultados, total_actual_portafolio>>
              ELSE /\ total_actual_portafolio' =
                          total_actual_portafolio + inv.cantidad * precio_actual.v
                   /\ resultados' =
                          resultados \o FilasEscenario(inv, precio_actual.v, sliders)
                   /\ avisos' = avisos
    /\ i' = i + 1
    /\ UNCHANGED <<portafolio, reloj, ticks, pc, sliders, datos, resumen,
                   rendimiento_portafolio, rend_total, total_valor, valores, pesos>>

\* The end of the simulation section (lines 127-159).
SimularFin ==
    /\ pc = "sim"
    /\ i > Len(portafolio)
    /\ IF portafolio # <<>> /\ resultados # <<>>
       THEN /\ resumen' = [e \in escenarios_unicos(resultados) |->
                              EntradaResumen(resultados, e, total_actual_portafolio)]
            /\ avisos' = avisos
       ELSE /\ resumen' = resumen
            /\ avisos' = IF portafolio # <<>>
                         THEN Append(avisos, [sec |-> "sim", ticker |-> ""])
                         ELSE avisos
    /\ pc' = "bench"
    /\ i' = 1
    /\ UNCHANGED <<portafolio, cache, reloj, ticks, sliders, llamadas, datos,
                   resultados, total_actual_portafolio, rendimiento_portafolio,
                   rend_total, total_valor, valores, pesos>>

\* One iteration of the benchmark-return loop (lines 190-195).  The division by
\* precio_compra is not guarded: with precio_compra = 0.0 it raises
\* ZeroDivisionError when precio_actual is a Python float (the script stops) and
\* yields inf when it is a numpy float.
RendimientoActivo(resp, numpy) ==
    /\ pc = "bench"
    /\ i <= Len(portafolio)
    /\ resp \in Consultas(portafolio[i].ticker)
    /\ LET inv == portafolio[i]
           precio_actual == Devuelto(inv.ticker, resp)
       IN  /\ Llamar(inv.ticker, resp)
           /\ IF Truthy(precio_actual)
              THEN IF inv.precio_compra = 0 /\ ~numpy
                   THEN /\ pc' = "error"
                        /\ i' = i
                        /\ rendimiento_portafolio' = rendimiento_portafolio
                   ELSE /\ rendimiento_portafolio' =
                              Append(rendimiento_portafolio,
                                     rendimiento_compra(precio_actual.v, inv.precio_compra))
                        /\ pc' = pc
                        /\ i' = i + 1
              ELSE /\ rendimiento_portafolio' = rendimiento_portafolio
                   /\ pc' = pc
                   /\ i' = i + 1
    /\ UNCHANGED <<portafolio, reloj, ticks, sliders, avisos, datos, resultados,
                   total_actual_portafolio, resumen, rend_total, total_valor,
                   valores, pesos>>

\* rend_total (line 197) and the head of the diversification section (226-228).
RendimientoFin ==
    /\ pc = "bench"
    /\ i > Len(portafolio)
    /\ rend_total' = media_rendimiento(rendimiento_portafolio)
    /\ pc' = "div"
    /\ i' = 1
    /\ UNCHANGED <<portafolio, cache, reloj, ticks, sliders, llamadas, avisos, datos,
                   resultados, total_actual_portafolio, resumen,
                   rendimiento_portafolio, total_valor, valores, pesos>>

\* One iteration of the diversification loop (lines 229-236).
DiversificarActivo(resp) ==
    /\ pc = "div"
    /\ i <= Len(portafolio)
    /\ resp \in Consultas(portafolio[i].ticker)
    /\ LET inv == portafolio[i]
           precio == Devuelto(inv.ticker, resp)
       IN  /\ Llamar(inv.ticker, resp)
           /\ IF Truthy(precio)
              THEN /\ total_valor' = total_valor + inv.cantidad * precio.v
                   /\ valores' = DictSet(valores, inv.ticker, inv.cantidad * precio.v)
              ELSE UNCHANGED <<total_valor, valores>>
    /\ i' = i + 1
    /\ UNCHANGED <<portafolio, reloj, ticks, pc, sliders, avisos, datos, resultados,
                   total_actual_portafolio, resumen, rendimiento_portafolio,
                   rend_total, pesos>>

\* The weight loop that ends the script (lines 238-246).
DiversificarFin ==
    /\ pc = "div"
    /\ i > Len(portafolio)
    /\ IF portafolio # <<>> /\ total_valor > 0
       THEN /\ pesos' = PesosDe(valores, total_valor)
            /\ avisos' = avisos \o AvisosDiv(PesosDe(valores, total_valor))
       ELSE UNCHANGED <<pesos, avisos>>
    /\ pc' = "idle"
    /\ i' = 1
    /\ UNCHANGED <<portafolio, cache, reloj, ticks, sliders, llamadas, datos,
                   resultados, total_actual_portafolio, resumen,
                   rendimiento_portafolio, rend_total, total_valor, valores>>

Next ==
    \/ \E d \in TickSteps : Tick(d)
    \/ \E agregar \in BOOLEAN :
          \E texto \in (IF agregar THEN TickerInputs ELSE {""}),
             compra \in (IF agregar THEN Compras ELSE {<<1, 0>>}) :
             Inicio(agregar, texto, compra[1], compra[2])
    \/ \E resp \in Respuestas \cup {SinConsulta} : ValorarActivo(resp)
    \/ \E pes \in PesimistaPcts, neu \in NeutralPcts, opt \in OptimistaPcts :
          ValorarFin(pes, neu, opt)
    \/ \E resp \in Respuestas \cup {SinConsulta} : SimularActivo(resp)
    \/ SimularFin
    \/ \E resp \in Respuestas \cup {SinConsulta}, numpy \in BOOLEAN :
          RendimientoActivo(resp, numpy)
    \/ RendimientoFin
    \/ \E resp \in Respuestas \cup {SinConsulta} : DiversificarActivo(resp)
    \/ DiversificarFin

Spec == Init /\ [][Next]_vars

----------------------------------------------------------------------------
\* Vocabulary of the properties.

Secciones == {"val", "sim", "bench", "div"}

Last(q) == q[Len(q)]

\* This step made a call of obtener_precio_cache (every loop iteration makes one).
Llamo == pc \in Secciones /\ llamadas' # llamadas

\* The sections after the simulation section.
TrasSimulacion == pc \in {"bench", "div", "idle", "error"}

\* A pass ran to the end of the script.
Completo == pc = "idle" /\ Len(llamadas.div) = Len(portafolio)

TickersDe(rows) == {rows[k].Ticker : k \in 1..Len(rows)}

Entradas(t) == {k \in 1..Len(portafolio) : portafolio[k].ticker = t}

\* Ticker t is held and every call made for it so far in the pass returned None.
NoResuelto(t) ==
    /\ Entradas(t) # {}
    /\ \A sec \in Secciones : \A k \in 1..Len(llamadas[sec]) :
          portafolio[k].ticker = t => IsNone(llamadas[sec][k].ret)

AvisosDe(sec, t) == {k \in 1..Len(avisos) : avisos[k] = [sec |-> sec, ticker |-> t]}

----------------------------------------------------------------------------
\* C1 -- PriceCache does not cache failures: a call whose lookup fails returns
\* None and stores nothing for the ticker, and a call for a ticker whose last
\* result was a failure invokes the external lookup again, even within 300 s.
C1_NoCacheaFallos ==
    [][Llamo =>
         LET t == portafolio[i].ticker
             r == Last(llamadas'[pc])
         IN  /\ (r.lookups = 1 /\ IsNone(r.ret)) => ~cache'[t].has
             /\ (cache[t].has /\ IsNone(cache[t].val)) => r.lookups = 1]_vars

\* C2 -- After a successful lookup at time t, a call for the same ticker at a
\* time < t + 300 makes no external lookup and returns the stored price; the
\* first call at or after t + 300 makes exactly one external lookup.
C2_VentanaFrescura ==
    [][Llamo =>
         LET t == portafolio[i].ticker
             e == cache[t]
             r == Last(llamadas'[pc])
         IN  (e.has /\ ~IsNone(e.val)) =>
                IF reloj < e.at + TTL
                THEN r.lookups = 0 /\ r.ret = e.val /\ cache' = cache
                ELSE r.lookups = 1 /\ cache'[t].at = reloj]_vars

\* In one loop, at a time >= 300, the first call refreshed a price and the
\* second was served a price stored earlier and still younger than 300 s.
C2_Witness ==
    /\ pc \in Secciones
    /\ Len(llamadas[pc]) = 2
    /\ LET a == portafolio[1].ticker
           b == portafolio[2].ticker
       IN  /\ a # b
           /\ llamadas[pc][1].lookups = 1 /\ ~IsNone(llamadas[pc][1].ret)
           /\ cache[a].at = reloj /\ reloj >= TTL
           /\ llamadas[pc][2].lookups = 0 /\ ~IsNone(llamadas[pc][2].ret)
           /\ cache[b].at < reloj /\ reloj < cache[b].at + TTL

----------------------------------------------------------------------------
\* The holdings a loop included, read off the values its calls returned.

\* Indices k <= n of the calls whose return value satisfies `is not None`.
RECURSIVE ConPrecio(_, _)
ConPrecio(calls, n) ==
    IF n = 0 THEN <<>>
    ELSE ConPrecio(calls, n - 1) \o (IF IsNone(calls[n].ret) THEN <<>> ELSE <<n>>)

\* Indices k <= n of the calls whose return value is truthy.
RECURSIVE ConPrecioVerdadero(_, _)
ConPrecioVerdadero(calls, n) ==
    IF n = 0 THEN <<>>
    ELSE ConPrecioVerdadero(calls, n - 1) \o (IF Truthy(calls[n].ret) THEN <<n>> ELSE <<>>)

\* The sum of f[k] over k in the finite set S of integers.
RECURSIVE Suma(_, _)
Suma(f, S) ==
    IF S = {} THEN 0
    ELSE LET k == CHOOSE x \in S : TRUE IN f[k] + Suma(f, S \ {k})

\* C4 -- No pass ends in a division-by-zero error, and every division whose
\* divisor is 0 yields 0: a scenario row of a holding worth 0, the summary of a
\* portfolio worth 0, and the return of a holding bought at 0.
C4_DivisionGuardada ==
    /\ pc # "error"
    /\ \A k \in 1..Len(resultados) :
          resultados[k].ValorActual = 0 => resultados[k].Rendimiento = 0
    /\ (TrasSimulacion /\ resultados # <<>> /\ total_actual_portafolio = 0) =>
          \A e \in DOMAIN resumen : resumen[e].RendimientoTotal = 0
    /\ LET inc == ConPrecioVerdadero(llamadas.bench, Len(rendimiento_portafolio))
       IN  \A j \in 1..Len(inc) :
              (j <= Len(rendimiento_portafolio) /\ portafolio[inc[j]].precio_compra = 0)
                 => rendimiento_portafolio[j] = <<0, 1>>

\* C5 -- The weights of a diversification pass sum to 100 whenever
\* total_valor > 0, also when several entries hold the same ticker.
C5_PesosSuman100 ==
    (Completo /\ total_valor > 0) =>
       SumaFrac([k \in 1..Len(pesos) |-> pesos[k][2]]) = <<100, 1>>

\* C6 -- For every scenario name the summary's total future value is the sum of
\* the projected values of the result rows with that name, the total difference
\* is that sum minus the sum of the included holdings' current values, and the
\* total return is difference / current * 100, or 0 when the current total is 0
\* (difference and return to the two decimals the summary keeps).
C6_ResumenAgregado ==
    (TrasSimulacion /\ resultados # <<>>) =>
       LET inc == ConPrecio(llamadas.sim, Len(llamadas.sim))
           actual == Suma([j \in 1..Len(inc) |->
                              portafolio[inc[j]].cantidad * llamadas.sim[inc[j]].ret.v],
                          1..Len(inc))
           nombres == {<<"Pesimista", sliders.pesimista>>, <<"Neutral", sliders.neutral>>,
                       <<"Optimista", sliders.optimista>>}
       IN  /\ DOMAIN resumen = nombres
           /\ total_actual_portafolio = actual
           /\ \A e \in nombres :
                 LET filas == {k \in 1..Len(resultados) : resultados[k].Escenario = e}
                     futuro == Suma([k \in 1..Len(resultados) |-> resultados[k].ValorFuturo],
                                    filas)
                 IN  /\ Cardinality(filas) = Len(inc)
                     /\ resumen[e].ValorFuturoTotal = futuro
                     /\ resumen[e].DiferenciaTotal = Round2(futuro - actual)
                     /\ resumen[e].RendimientoTotal =
                           IF actual = 0 THEN 0
                           ELSE RoundPct(Frac((futuro - actual) * 100, actual))

\* A summary over two holdings whose rounded rows add up to less than the
\* unrounded projection (2 x 0.105 USD shown as 2 x 0.10), next to a losing scenario.
C6_Witness ==
    /\ Completo
    /\ Len(resultados) = 6
    /\ total_actual_portafolio = 200
    /\ resumen[<<"Neutral", 5>>].ValorFuturoTotal = 200
    /\ resumen[<<"Neutral", 5>>].RendimientoTotal = 0
    /\ resumen[<<"Pesimista", -20>>].RendimientoTotal = -2000

\* The rows the claim's formulas give for the first n holdings, the k-th priced
\* by the value the simulation loop's k-th call returned, in units of 1/1000 USD
\* and 1/100 percent.
RECURSIVE FilasSegunFormula(_)
FilasSegunFormula(n) ==
    IF n = 0 THEN <<>>
    ELSE LET inv == portafolio[n]
             precio == llamadas.sim[n].ret
             fila(nombre, pct) ==
                 LET current_value == inv.cantidad * precio.v
                     projected_value == (inv.cantidad * precio.v * (100 + pct)) \div 100
                     delta == projected_value - current_value
                 IN  [Ticker |-> inv.ticker, Escenario |-> <<nombre, pct>>,
                      ValorActual |-> Round2(current_value),
                      ValorFuturo |-> Round2(projected_value),
                      Diferencia |-> Round2(delta),
                      Rendimiento |-> IF current_value = 0 THEN 0
                                      ELSE RoundPct(Frac(delta * 100, current_value))]
         IN  FilasSegunFormula(n - 1)
             \o (IF IsNone(precio) THEN <<>>
                 ELSE <<fila("Pesimista", sliders.pesimista),
                        fila("Neutral", sliders.neutral),
                        fila("Optimista", sliders.optimista)>>)

\* C7 -- Every scenario row of an included holding has projected_value =
\* quantity * current_price * (1 + pct/100), delta = projected_value -
\* current_value, and return_pct = delta / current_value * 100, or 0 when
\* current_value is 0 (each to the two decimals a row keeps).
C7_FilasEscenario ==
    (pc = "sim" \/ TrasSimulacion) => resultados = FilasSegunFormula(Len(llamadas.sim))

\* 10 shares at 150 under -20 %: 1500 now, 1200 projected, -300, -20 %; and a
\* holding priced 0, whose return is 0.
C7_Witness ==
    /\ \E k \in 1..Len(resultados) :
          /\ resultados[k].Escenario = <<"Pesimista", -20>>
          /\ resultados[k].ValorActual = 1500000
          /\ resultados[k].ValorFuturo = 1200000
          /\ resultados[k].Diferencia = -300000
          /\ resultados[k].Rendimiento = -2000
    /\ \E k \in 1..Len(llamadas.sim) :
          /\ portafolio[k].cantidad = 10 /\ llamadas.sim[k].ret = Some(150000)
    /\ \E k \in 1..Len(resultados) :
          resultados[k].ValorActual = 0 /\ resultados[k].Rendimiento = 0

\* C8 -- The portfolio starts empty and changes only by one holding appended
\* at its end; every stored holding has a non-empty ticker (so a submission
\* with an empty ticker stores nothing) and a quantity >= 1.
C8_SoloAgregar ==
    /\ portafolio = <<>>
    /\ [][\/ portafolio' = portafolio
          \/ /\ Len(portafolio') = Len(portafolio) + 1
             /\ SubSeq(portafolio', 1, Len(portafolio)) = portafolio
             /\ pc \in {"idle", "error"}]_vars
    /\ [](\A k \in 1..Len(portafolio) :
             portafolio[k].ticker # "" /\ portafolio[k].cantidad >= 1)

\* A portfolio grown to two holdings of different tickers, in a later pass.
C8_Witness ==
    /\ Len(portafolio) = 2
    /\ portafolio[1].ticker = "AAPL" /\ portafolio[2].ticker = "MSFT"
    /\ pc = "div"

\* C9 -- After the weight loop, a ticker has a concentration warning if and
\* only if its weight is strictly above 50 %; with total_valor = 0 there are
\* neither weights nor warnings.
C9_AvisoConcentracion ==
    Completo =>
       /\ total_valor = 0 => (pesos = <<>> /\ \A t \in Tickers : AvisosDe("div", t) = {})
       /\ total_valor > 0 =>
             /\ DictKeys(pesos) = DictKeys(valores)
             /\ \A k \in 1..Len(valores) :
                   AvisosDe("div", valores[k][1]) # {}
                      <=> valores[k][2] * 100 > 50 * total_valor

\* Two tickers at exactly 50 % each: no warning.
C9_Witness ==
    /\ Completo
    /\ Len(valores) = 2
    /\ valores[1][2] = valores[2][2]
    /\ total_valor = 2 * valores[1][2]
    /\ total_valor > 0
    /\ \A t \in Tickers : AvisosDe("div", t) = {}

\* C10 -- When the four loops of a pass were given the same lookup answers,
\* they include the same holdings: those in the valuation and scenario rows are
\* those in the average return and in the diversification weights.
C10_MismaInclusion ==
    (/\ Completo
     /\ \A k \in 1..Len(portafolio) : \A sec \in Secciones :
           llamadas[sec][k].ret = llamadas.val[k].ret)
    => /\ TickersDe(datos) = TickersDe(resultados)
       /\ TickersDe(datos) = DictKeys(valores)
       /\ Len(datos) = Len(rendimiento_portafolio)

====
